---- MODULE Spec2Model ----
(***************************************************************************)
(* A model of the document core of mininotion ("Notion++"): the Document   *)
(* (content, cursor, selection, scroll state), the DocumentCollection and  *)
(* the NotionApp operations that drive them (new/open/close, the text      *)
(* widget frame, find, replace, the function-list jump).                   *)
(*                                                                         *)
(* Text is a sequence of bytes.  A byte is written as a string token:      *)
(* "a", "f", "n", " " and "\n" are one-byte (ASCII) characters, the pair   *)
(* "C3" "A9" is the two-byte UTF-8 encoding of U+00E9 and the pair         *)
(* "C3" "BC" that of U+00FC.  Offsets are byte offsets counted from 0 as   *)
(* in the source; a TLA+ sequence is indexed from 1, so byte offset i of   *)
(* s is s[i + 1].                                                          *)
(*                                                                         *)
(* disk is the file system (the bytes of the file at each path, if any)    *)
(* and returned the value the last direct call of a Document or            *)
(* DocumentCollection method returned to its caller.                       *)
(***************************************************************************)
EXTENDS Integers, Sequences, FiniteSets, TLC

VARIABLES documents, active_document_index, config, find_text, replace_text,
          status_message, panicked, disk, returned

vars == <<documents, active_document_index, config, find_text, replace_text,
          status_message, panicked, disk, returned>>

(***************************************************************************)
(* Bounds of the exploration.                                              *)
(***************************************************************************)
\* the text widget inserts a character only while the content stays within
\* MaxLen bytes (longer content comes from a file and can only shrink)
MaxLen == 3
\* in a session that saves, the text widget keeps the content within
\* MaxSaveLen bytes
MaxSaveLen == 2
\* in a session with several tabs, at most MaxDocs documents are open, each
\* edited within MaxTabLen bytes
MaxDocs == 3
MaxTabLen == 1
\* in a session with Find, Replace and Save on several documents, at most
\* MaxPairDocs documents are open
MaxPairDocs == 2
\* a caller of the Document and DocumentCollection methods holds at most
\* MaxApiDocs documents, each edited within MaxApiLen bytes
MaxApiDocs == 2
MaxApiLen == 1

(***************************************************************************)
(* Program constants.                                                      *)
(***************************************************************************)
\* the approximate height of a line, in pixels
LineHeight == 18
\* a drag selects the last DragSpan bytes before the cursor
DragSpan == 10

(***************************************************************************)
(* Option<T>: None is the empty tuple, Some(x) the one-element tuple.      *)
(***************************************************************************)
None == << >>
Some(x) == <<x>>
IsSome(o) == o # None
Unwrap(o) == o[1]

Min(a, b) == IF a <= b THEN a ELSE b
Max(a, b) == IF a >= b THEN a ELSE b

(***************************************************************************)
(* Bytes, characters and strings (Rust str: valid UTF-8).                  *)
(***************************************************************************)
\* the continuation bytes (10xxxxxx) of the byte alphabet
ContinuationBytes == {"A9", "BC"}

\* the characters the text widget and the dialogs can enter
EAcute == <<"C3", "A9">>
UUml == <<"C3", "BC">>
EditChars == {<<"a">>, <<"\n">>, EAcute}

\* str::len
StrLen(s) == Len(s)

\* str::is_char_boundary(index)
is_char_boundary(s, index) ==
    \/ index = 0
    \/ index = Len(s)
    \/ /\ index > 0
       /\ index < Len(s)
       /\ s[index + 1] \notin ContinuationBytes

\* s.chars().count(): every character has exactly one non-continuation byte
CharsCount(s) == Cardinality({i \in 1..Len(s) : s[i] \notin ContinuationBytes})

\* the range check of the slicing operator s[start..end], which panics
\* when it fails
SliceOk(s, start, end) ==
    /\ start <= end
    /\ end <= Len(s)
    /\ is_char_boundary(s, start)
    /\ is_char_boundary(s, end)

\* s[start..end] for a range that passes the check
Slice(s, start, end) == SubSeq(s, start + 1, end)

\* the number of '\n' characters of s
NewlineCount(s) == Cardinality({i \in 1..Len(s) : s[i] = "\n"})

\* s.rfind('\n') as an Option
RfindNewline(s) ==
    IF \E i \in 1..Len(s) : s[i] = "\n"
    THEN Some((CHOOSE i \in 1..Len(s) :
                  /\ s[i] = "\n"
                  /\ \A j \in (i + 1)..Len(s) : s[j] # "\n") - 1)
    ELSE None

\* the byte offset of the first '\n' of s, as an Option
FindNewline(s) ==
    IF \E i \in 1..Len(s) : s[i] = "\n"
    THEN Some((CHOOSE i \in 1..Len(s) :
                  /\ s[i] = "\n"
                  /\ \A j \in 1..(i - 1) : s[j] # "\n") - 1)
    ELSE None

\* s.lines() as a sequence: a line ends at '\n'; a final line without a
\* terminator is a line, an empty remainder after the last '\n' is not
RECURSIVE Lines(_)
Lines(s) ==
    IF s = << >> THEN << >>
    ELSE IF IsSome(FindNewline(s))
         THEN <<SubSeq(s, 1, Unwrap(FindNewline(s)))>>
              \o Lines(SubSeq(s, Unwrap(FindNewline(s)) + 2, Len(s)))
         ELSE <<s>>

\* s.lines().count()
LinesCount(s) == Len(Lines(s))

\* the white-space bytes of the byte alphabet
WhiteSpace == {" ", "\n"}

\* str::trim
RECURSIVE Trim(_)
Trim(s) ==
    IF s = << >> THEN s
    ELSE IF s[1] \in WhiteSpace THEN Trim(Tail(s))
    ELSE IF s[Len(s)] \in WhiteSpace THEN Trim(SubSeq(s, 1, Len(s) - 1))
    ELSE s

\* str::contains(pat)
Contains(s, pat) ==
    \E i \in 0..(Len(s) - Len(pat)) : SubSeq(s, i + 1, i + Len(pat)) = pat

\* str::find(pat): a scan from offset 0 that returns the first offset at
\* which pat occurs
RECURSIVE FindFrom(_, _, _)
FindFrom(s, pat, i) ==
    IF i + Len(pat) > Len(s) THEN None
    ELSE IF SubSeq(s, i + 1, i + Len(pat)) = pat THEN Some(i)
    ELSE FindFrom(s, pat, i + 1)

\* str::rfind in the place of str::find: the last occurrence
StrFind_last(s, pat) ==
    IF \E i \in 0..Len(s) : i + Len(pat) <= Len(s) /\ SubSeq(s, i + 1, i + Len(pat)) = pat
    THEN Some(CHOOSE i \in 0..Len(s) :
                 /\ i + Len(pat) <= Len(s)
                 /\ SubSeq(s, i + 1, i + Len(pat)) = pat
                 /\ \A j \in (i + 1)..Len(s) :
                       ~(j + Len(pat) <= Len(s) /\ SubSeq(s, j + 1, j + Len(pat)) = pat))
    ELSE None

\* a find that takes an empty pattern to match nowhere
StrFind_no_empty(s, pat) ==
    IF pat = << >> THEN None ELSE FindFrom(s, pat, 0)

StrFind(s, pat) == FindFrom(s, pat, 0)

\* the bytes are the UTF-8 encoding of some text: every lead byte "C3" is
\* followed by a continuation byte and every continuation byte follows one
IsValidUtf8(bytes) ==
    /\ \A i \in 1..Len(bytes) :
          bytes[i] = "C3" => i < Len(bytes) /\ bytes[i + 1] \in ContinuationBytes
    /\ \A i \in 1..Len(bytes) :
          bytes[i] \in ContinuationBytes => i > 1 /\ bytes[i - 1] = "C3"

\* the byte length of the character that starts at byte offset i
CharLenAt(s, i) == IF s[i + 1] = "C3" THEN 2 ELSE 1

(***************************************************************************)
(* The files on disk that the file picker can return.  A path is a         *)
(* directory and a file name; the bytes of "latin1.txt" are not UTF-8.     *)
(***************************************************************************)
FnFile == [path |-> [dir |-> "/src", name |-> "lib.rs"],
           bytes |-> <<"\n", "f", "n", " ", "a">>]
LongFile == [path |-> [dir |-> "/doc", name |-> "long.txt"],
             bytes |-> <<"n", "C3", "A9", "n", "n", "n", "n", "n", "n", "n", "n", "n">>]
BadFile == [path |-> [dir |-> "/doc", name |-> "latin1.txt"],
            bytes |-> <<"A9">>]
NoteFile == [path |-> [dir |-> "/doc", name |-> "note.txt"],
             bytes |-> UUml]

\* a path at which there is no file yet
OutPath == [dir |-> "/doc", name |-> "out.txt"]

\* the file system at start: the bytes at each path, None where no file is
DiskInit ==
    [p \in {FnFile.path, LongFile.path, BadFile.path, NoteFile.path, OutPath} |->
        IF p = FnFile.path THEN Some(FnFile.bytes)
        ELSE IF p = LongFile.path THEN Some(LongFile.bytes)
        ELSE IF p = BadFile.path THEN Some(BadFile.bytes)
        ELSE IF p = NoteFile.path THEN Some(NoteFile.bytes)
        ELSE None]

\* the file at path p of the file system fs
FileAt(fs, p) == [path |-> p, bytes |-> Unwrap(fs[p])]

\* a write that ends the content with a line terminator
fs_write_line(fs, path, content) == [fs EXCEPT ![path] = Some(content \o <<"\n">>)]

\* fs::write(path, content): the file system it leaves when it succeeds
fs_write(fs, path, content) == [fs EXCEPT ![path] = Some(content)]

\* fs::read_to_string: the content, or an error for bytes that are not UTF-8
read_to_string(file) ==
    IF IsValidUtf8(file.bytes) THEN [ok |-> TRUE, content |-> file.bytes]
    ELSE [ok |-> FALSE, content |-> << >>]

\* Path::file_name
file_name(path) == path.name

(***************************************************************************)
(* Document                                                                *)
(***************************************************************************)
\* Document::new
DocumentNew ==
    [path |-> None,
     content |-> << >>,
     filename |-> "Untitled",
     is_modified |-> FALSE,
     scroll_offset |-> 0,
     cursor_position |-> 0,
     line_numbers |-> TRUE,
     word_wrap |-> TRUE,
     selection |-> None,
     current_line |-> 0,
     current_column |-> 0]

\* Document::from_file
from_file(file) ==
    LET read == read_to_string(file)
    IN  IF read.ok
        THEN [ok |-> TRUE,
              doc |-> [DocumentNew EXCEPT !.path = Some(file.path),
                                          !.content = read.content,
                                          !.filename = file_name(file.path)]]
        ELSE [ok |-> FALSE, doc |-> DocumentNew]

\* save_to_file that assigns the fields before the write is known to have
\* succeeded
save_to_file_assign_first(doc, path, fs, write_ok) ==
    [ok |-> write_ok,
     doc |-> [doc EXCEPT !.path = Some(path),
                         !.filename = file_name(path),
                         !.is_modified = FALSE],
     disk |-> IF write_ok THEN fs_write(fs, path, doc.content) ELSE fs]

\* Document::save_to_file on the file system fs.  write_ok tells whether
\* fs::write succeeds; a write that fails (the file cannot be created)
\* leaves the file system as it was, and the ? operator returns before
\* any field is assigned.
save_to_file(doc, path, fs, write_ok) ==
    IF write_ok
    THEN [ok |-> TRUE,
          doc |-> [doc EXCEPT !.path = Some(path),
                              !.filename = file_name(path),
                              !.is_modified = FALSE],
          disk |-> fs_write(fs, path, doc.content)]
    ELSE [ok |-> FALSE, doc |-> doc, disk |-> fs]

\* Document::save: without a path it does nothing and returns Ok(())
save(doc, fs, write_ok) ==
    IF IsSome(doc.path)
    THEN save_to_file(doc, Unwrap(doc.path), fs, write_ok)
    ELSE [ok |-> TRUE, doc |-> doc, disk |-> fs]

\* Document::get_line_count
get_line_count(doc) == Max(LinesCount(doc.content), 1)

\* Document::scroll_to_line
scroll_to_line(doc, line) ==
    [doc EXCEPT !.current_line = line,
                !.scroll_offset = line * LineHeight]

\* a column counted in bytes instead of characters
LineColumnAt_bytes(content, cursor_pos) ==
    LET text_before_cursor == Slice(content, 0, cursor_pos)
        last_newline_pos == RfindNewline(text_before_cursor)
    IN  [line |-> NewlineCount(text_before_cursor),
         column |->
             IF IsSome(last_newline_pos)
             THEN StrLen(text_before_cursor) - (Unwrap(last_newline_pos) + 1)
             ELSE StrLen(text_before_cursor)]

\* the line and the column of the text before the cursor, as
\* update_cursor_position_from_content computes them from cursor_pos
LineColumnAt(content, cursor_pos) ==
    LET text_before_cursor == Slice(content, 0, cursor_pos)
        last_newline_pos == RfindNewline(text_before_cursor)
    IN  [line |-> NewlineCount(text_before_cursor),
         column |->
             IF IsSome(last_newline_pos)
             THEN CharsCount(Slice(text_before_cursor,
                                   Unwrap(last_newline_pos) + 1,
                                   StrLen(text_before_cursor)))
             ELSE CharsCount(text_before_cursor)]

\* a cursor counted in characters instead of bytes
update_cursor_position_in_chars(doc) ==
    [doc EXCEPT
        !.cursor_position = CharsCount(doc.content),
        !.current_line = LineColumnAt(doc.content, StrLen(doc.content)).line,
        !.current_column = LineColumnAt(doc.content, StrLen(doc.content)).column]

\* Document::update_cursor_position_from_content
update_cursor_position_from_content(doc) ==
    LET cursor_pos == StrLen(doc.content)
    IN  [doc EXCEPT
            !.cursor_position = cursor_pos,
            !.current_line = LineColumnAt(doc.content, cursor_pos).line,
            !.current_column = LineColumnAt(doc.content, cursor_pos).column]

\* what egui's TextEdit can make of the content in a frame in which it
\* reports a change: one character entered at a character boundary, or one
\* character removed
TextEditResults(content) ==
    {SubSeq(content, 1, i) \o c \o SubSeq(content, i + 1, Len(content)) :
        <<i, c>> \in {ic \in (0..Len(content)) \X EditChars :
                        /\ is_char_boundary(content, ic[1])
                        /\ Len(content) + Len(ic[2]) <= MaxLen}}
    \cup
    {SubSeq(content, 1, i) \o SubSeq(content, i + CharLenAt(content, i) + 1, Len(content)) :
        i \in {j \in 0..(Len(content) - 1) : is_char_boundary(content, j)}}

\* the selection a drag makes: the last DragSpan bytes before the cursor
DragSelection(doc) ==
    IF doc.cursor_position > 0
    THEN LET start == IF doc.cursor_position > DragSpan
                      THEN doc.cursor_position - DragSpan ELSE 0
         IN  Some(<<start, doc.cursor_position>>)
    ELSE None

\* the scroll part of Document::ui; current_scroll is the negated wheel delta
ApplyScroll(doc, current_scroll) ==
    IF current_scroll # 0
    THEN LET max_offset == get_line_count(doc) * LineHeight
         IN  [doc EXCEPT !.scroll_offset =
                 Min(Max(doc.scroll_offset + current_scroll, 0), max_offset)]
    ELSE doc

\* Document::ui that does not mark the document on a change
DocumentUi_keep_flag(doc, typed, has_focus, clicked, dragged, current_scroll) ==
    LET changed == typed # doc.content
        edited == IF changed
                  THEN update_cursor_position_from_content(
                           [doc EXCEPT !.content = typed])
                  ELSE doc
        pointed == IF has_focus /\ (clicked \/ dragged)
                   THEN LET moved == update_cursor_position_from_content(edited)
                        IN  [moved EXCEPT !.selection =
                                IF dragged THEN DragSelection(moved) ELSE None]
                   ELSE edited
    IN  ApplyScroll(pointed, current_scroll)

\* Document::ui for one frame.  The widget's response is an input: typed is
\* the content the TextEdit leaves (changed iff it differs), has_focus,
\* clicked and dragged are the flags of its response.
DocumentUi(doc, typed, has_focus, clicked, dragged, current_scroll) ==
    LET changed == typed # doc.content
        edited == IF changed
                  THEN update_cursor_position_from_content(
                           [doc EXCEPT !.content = typed, !.is_modified = TRUE])
                  ELSE doc
        pointed == IF has_focus /\ (clicked \/ dragged)
                   THEN LET moved == update_cursor_position_from_content(edited)
                        IN  [moved EXCEPT !.selection =
                                IF dragged THEN DragSelection(moved) ELSE None]
                   ELSE edited
    IN  ApplyScroll(pointed, current_scroll)

\* Document::text_width: the number of characters of text
text_width(text) == CharsCount(text)

\* the status bar of Document::ui (and UiComponents::line_info_panel): the
\* number n shown as "Sel: n chars", None without a selection
status_bar_selection(doc) ==
    IF IsSome(doc.selection)
    THEN Some(Unwrap(doc.selection)[2] - Unwrap(doc.selection)[1])
    ELSE None

\* the wheel deltas of a frame
ScrollDeltas == {-LineHeight, LineHeight}

(***************************************************************************)
(* DocumentCollection                                                      *)
(***************************************************************************)
\* an add at the front (Vec::insert(0, ..))
add_front(docs, document) == <<document>> \o docs

\* DocumentCollection::add
add(docs, document) == Append(docs, document)

\* DocumentCollection::get / get_mut: is there a document at index
InRange(docs, index) == index < Len(docs)

\* a close that clamps an index past the end to the last document
close_clamped(docs, index) ==
    IF Len(docs) > 0
    THEN LET at == IF index < Len(docs) THEN index ELSE Len(docs) - 1
         IN  [documents |-> SubSeq(docs, 1, at) \o SubSeq(docs, at + 2, Len(docs)),
              closed |-> index < Len(docs)]
    ELSE [documents |-> docs, closed |-> FALSE]

\* a close that removes the last document (Vec::pop) whatever the index
close_pop(docs, index) ==
    IF index < Len(docs)
    THEN [documents |-> SubSeq(docs, 1, Len(docs) - 1), closed |-> TRUE]
    ELSE [documents |-> docs, closed |-> FALSE]

\* DocumentCollection::close: the documents left and the value returned
close(docs, index) ==
    IF index < Len(docs)
    THEN [documents |-> SubSeq(docs, 1, index) \o SubSeq(docs, index + 2, Len(docs)),
          closed |-> TRUE]
    ELSE [documents |-> docs, closed |-> FALSE]

(***************************************************************************)
(* NotionApp                                                               *)
(***************************************************************************)
\* the texts typed into the single-line Find and Replace fields
FindTexts == {<< >>, <<"a">>, EAcute}
ReplaceTexts == {<< >>, UUml}

\* the keywords of the function list
Keywords == {<<"f", "n", " ">>,
             <<"f", "u", "n", "c", "t", "i", "o", "n", " ">>,
             <<"d", "e", "f", " ">>,
             <<"c", "l", "a", "s", "s", " ">>,
             <<"s", "t", "r", "u", "c", "t", " ">>,
             <<"i", "m", "p", "l", " ">>}

\* a line that the function list shows
IsFunctionLine(line) == \E kw \in Keywords : Contains(Trim(line), kw)

\* is there an active document (Some(idx) with a document at idx)
HasActiveDoc ==
    /\ IsSome(active_document_index)
    /\ InRange(documents, Unwrap(active_document_index))

ActiveDoc == documents[Unwrap(active_document_index) + 1]

\* the collection with its first document replaced by doc
WithFirstDoc(doc) == [documents EXCEPT ![1] = doc]

\* the collection with the active document replaced by doc
WithActiveDoc(doc) == [documents EXCEPT ![Unwrap(active_document_index) + 1] = doc]

\* an active index that is not clamped after a close
AfterClose_unclamped(docs, idx) ==
    IF Len(docs) = 0 THEN None ELSE Some(idx)

\* the active index after a close of idx that left docs
AfterClose(docs, idx) ==
    IF Len(docs) = 0 THEN None ELSE Some(Min(idx, Len(docs) - 1))

\* Config::default
ConfigDefault == [line_numbers |-> TRUE, word_wrap |-> TRUE]

Init ==
    /\ documents = << >>
    /\ active_document_index = None
    /\ config = ConfigDefault
    /\ find_text = << >>
    /\ replace_text = << >>
    /\ status_message = None
    /\ panicked = FALSE
    /\ disk = DiskInit
    /\ returned = None

\* NotionApp::new_document
new_document ==
    /\ ~panicked
    /\ UNCHANGED <<disk, returned>>
    /\ LET doc == [DocumentNew EXCEPT !.line_numbers = config.line_numbers,
                                      !.word_wrap = config.word_wrap]
       IN  documents' = add(documents, doc)
    /\ active_document_index' = Some(Len(documents') - 1)
    /\ status_message' = Some("New document created")
    /\ UNCHANGED <<config, find_text, replace_text, panicked>>

\* open_document that opens an empty document when the file does not load
open_document_empty_on_error(picked) ==
    /\ ~panicked
    /\ UNCHANGED <<disk, returned>>
    /\ IF IsSome(picked)
       THEN LET loaded == from_file(Unwrap(picked))
            IN  /\ documents' = add(documents, loaded.doc)
                /\ active_document_index' = Some(Len(documents') - 1)
                /\ status_message' =
                      IF loaded.ok THEN Some("Opened") ELSE Some("Error opening file")
       ELSE UNCHANGED <<documents, active_document_index, status_message>>
    /\ UNCHANGED <<config, find_text, replace_text, panicked>>

\* NotionApp::open_document; picked is what the file dialog returns
open_document(picked) ==
    /\ ~panicked
    /\ UNCHANGED <<disk, returned>>
    /\ IF IsSome(picked)
       THEN LET loaded == from_file(Unwrap(picked))
            IN  IF loaded.ok
                THEN /\ documents' =
                          add(documents,
                              [loaded.doc EXCEPT !.line_numbers = config.line_numbers,
                                                 !.word_wrap = config.word_wrap])
                     /\ active_document_index' = Some(Len(documents') - 1)
                     /\ status_message' = Some("Opened")
                ELSE /\ status_message' = Some("Error opening file")
                     /\ UNCHANGED <<documents, active_document_index>>
       ELSE UNCHANGED <<documents, active_document_index, status_message>>
    /\ UNCHANGED <<config, find_text, replace_text, panicked>>

\* NotionApp::save_document; picked is what the save dialog returns when the
\* document has no path.  An error is logged by the menu and dropped.
save_document(picked, write_ok) ==
    /\ ~panicked
    /\ IF HasActiveDoc
       THEN IF ActiveDoc.path = None
            THEN IF IsSome(picked)
                 THEN LET out == save_to_file(ActiveDoc, Unwrap(picked), disk, write_ok)
                      IN  /\ documents' = WithActiveDoc(out.doc)
                          /\ disk' = out.disk
                          /\ status_message' =
                                IF out.ok THEN Some("Saved to") ELSE status_message
                 ELSE UNCHANGED <<documents, disk, status_message>>
            ELSE LET out == save(ActiveDoc, disk, write_ok)
                 IN  /\ documents' = WithActiveDoc(out.doc)
                     /\ disk' = out.disk
                     /\ status_message' =
                           IF out.ok THEN Some("Saved") ELSE status_message
       ELSE UNCHANGED <<documents, disk, status_message>>
    /\ UNCHANGED <<active_document_index, config, find_text, replace_text,
                   panicked, returned>>

\* NotionApp::save_document_as
save_document_as(picked, write_ok) ==
    /\ ~panicked
    /\ IF HasActiveDoc /\ IsSome(picked)
       THEN LET out == save_to_file(ActiveDoc, Unwrap(picked), disk, write_ok)
            IN  /\ documents' = WithActiveDoc(out.doc)
                /\ disk' = out.disk
                /\ status_message' =
                      IF out.ok THEN Some("Saved to") ELSE status_message
       ELSE UNCHANGED <<documents, disk, status_message>>
    /\ UNCHANGED <<active_document_index, config, find_text, replace_text,
                   panicked, returned>>

\* NotionApp::close_document
close_document ==
    /\ ~panicked
    /\ UNCHANGED <<disk, returned>>
    /\ IF IsSome(active_document_index)
       THEN LET idx == Unwrap(active_document_index)
                res == close(documents, idx)
            IN  IF res.closed
                THEN /\ documents' = res.documents
                     /\ status_message' = Some("Document closed")
                     /\ active_document_index' = AfterClose(res.documents, idx)
                ELSE UNCHANGED <<documents, active_document_index, status_message>>
       ELSE UNCHANGED <<documents, active_document_index, status_message>>
    /\ UNCHANGED <<config, find_text, replace_text, panicked>>

\* NotionApp::show_tabs_bar: a frame in which a tab was clicked and/or a
\* tab's close button was pressed
show_tabs_bar(clicked_idx, close_idx) ==
    /\ ~panicked
    /\ UNCHANGED <<disk, returned>>
    /\ Len(documents) > 0
    /\ LET selected == IF IsSome(clicked_idx) THEN clicked_idx
                       ELSE active_document_index
       IN  IF IsSome(close_idx)
           THEN LET idx == Unwrap(close_idx)
                    res == close(documents, idx)
                IN  /\ documents' = res.documents
                    /\ active_document_index' =
                          IF res.closed THEN AfterClose(res.documents, idx)
                          ELSE selected
           ELSE /\ documents' = documents
                /\ active_document_index' = selected
    /\ UNCHANGED <<config, find_text, replace_text, status_message, panicked>>

\* NotionApp::show_document_area: the frame of the active document's editor
show_document_area(typed, has_focus, clicked, dragged, current_scroll) ==
    /\ ~panicked
    /\ UNCHANGED <<disk, returned>>
    /\ HasActiveDoc
    /\ documents' = WithActiveDoc(
           DocumentUi(ActiveDoc, typed, has_focus, clicked, dragged, current_scroll))
    /\ UNCHANGED <<active_document_index, config, find_text, replace_text,
                   status_message, panicked>>

\* find_text with the selection's end computed from the number of
\* characters of the needle instead of its byte length
find_text_on_char_len(doc, needle) ==
    LET found == StrFind(doc.content, needle)
    IN  IF IsSome(found)
        THEN LET pos == Unwrap(found)
             IN  [doc |-> [doc EXCEPT
                              !.cursor_position = pos,
                              !.selection = Some(<<pos, pos + CharsCount(needle)>>)],
                  status |-> "Found text at position"]
        ELSE [doc |-> doc, status |-> "Text not found"]

\* find_text that drops the selection when there is no match
find_text_on_deselect(doc, needle) ==
    LET found == StrFind(doc.content, needle)
    IN  IF IsSome(found)
        THEN LET pos == Unwrap(found)
             IN  [doc |-> [doc EXCEPT
                              !.cursor_position = pos,
                              !.selection = Some(<<pos, pos + StrLen(needle)>>)],
                  status |-> "Found text at position"]
        ELSE [doc |-> [doc EXCEPT !.selection = None], status |-> "Text not found"]

\* NotionApp::find_text on the active document doc, with
\* self.find_text = needle: the document and the status message it leaves
find_text_on(doc, needle) ==
    LET found == StrFind(doc.content, needle)
    IN  IF IsSome(found)
        THEN LET pos == Unwrap(found)
             IN  [doc |-> [doc EXCEPT
                              !.cursor_position = pos,
                              !.selection = Some(<<pos, pos + StrLen(needle)>>)],
                  status |-> "Found text at position"]
        ELSE [doc |-> doc, status |-> "Text not found"]

\* NotionApp::find_text
NotionApp_find_text(needle) ==
    /\ IF HasActiveDoc
       THEN LET out == find_text_on(ActiveDoc, needle)
            IN  /\ documents' = WithActiveDoc(out.doc)
                /\ status_message' = Some(out.status)
       ELSE UNCHANGED <<documents, status_message>>
    /\ UNCHANGED panicked

\* a comparison of the lengths only
selected_text_same_length(content, start, end, needle) ==
    end - start = Len(needle)

\* the comparison doc.content[start..end] == self.find_text
selected_text_matches(content, start, end, needle) ==
    Slice(content, start, end) = needle

\* replace_text that drops the selection when the selected text differs
\* from the search text
replace_text_on_deselect(doc, needle, replacement) ==
    IF IsSome(doc.selection)
    THEN LET start == Unwrap(doc.selection)[1]
             end == Unwrap(doc.selection)[2]
         IN  IF ~SliceOk(doc.content, start, end)
             THEN [panic |-> TRUE, doc |-> doc, status |-> "panic"]
             ELSE IF selected_text_matches(doc.content, start, end, needle)
             THEN LET before == Slice(doc.content, 0, start)
                      after == Slice(doc.content, end, StrLen(doc.content))
                  IN  [panic |-> FALSE,
                       doc |-> [doc EXCEPT
                                   !.content = before \o replacement \o after,
                                   !.selection =
                                       Some(<<start, start + StrLen(replacement)>>),
                                   !.is_modified = TRUE],
                       status |-> "Text replaced"]
             ELSE [panic |-> FALSE, doc |-> [doc EXCEPT !.selection = None],
                   status |-> "Selected text doesn't match search text"]
    ELSE [panic |-> FALSE, doc |-> doc, status |-> "No text selected"]

\* NotionApp::replace_text on the active document doc, with
\* self.find_text = needle and self.replace_text = replacement: the document
\* and the status message it leaves.  Slicing the content outside its range
\* or inside a character panics: the frame is abandoned with nothing changed.
replace_text_on(doc, needle, replacement) ==
    IF IsSome(doc.selection)
    THEN LET start == Unwrap(doc.selection)[1]
             end == Unwrap(doc.selection)[2]
         IN  IF ~SliceOk(doc.content, start, end)
             THEN [panic |-> TRUE, doc |-> doc, status |-> "panic"]
             ELSE IF selected_text_matches(doc.content, start, end, needle)
             THEN LET before == Slice(doc.content, 0, start)
                      after == Slice(doc.content, end, StrLen(doc.content))
                  IN  [panic |-> FALSE,
                       doc |-> [doc EXCEPT
                                   !.content = before \o replacement \o after,
                                   !.selection =
                                       Some(<<start, start + StrLen(replacement)>>),
                                   !.is_modified = TRUE],
                       status |-> "Text replaced"]
             ELSE [panic |-> FALSE, doc |-> doc,
                   status |-> "Selected text doesn't match search text"]
    ELSE [panic |-> FALSE, doc |-> doc, status |-> "No text selected"]

\* NotionApp::replace_text
NotionApp_replace_text(needle, replacement) ==
    IF HasActiveDoc
    THEN LET out == replace_text_on(ActiveDoc, needle, replacement)
         IN  IF out.panic
             THEN /\ panicked' = TRUE
                  /\ UNCHANGED <<documents, status_message>>
             ELSE /\ documents' = WithActiveDoc(out.doc)
                  /\ status_message' = Some(out.status)
                  /\ UNCHANGED panicked
    ELSE UNCHANGED <<documents, status_message, panicked>>

\* NotionApp::show_find_window: the frame of the Find dialog; typed is the
\* text of its field, button the button pressed
show_find_window(typed, button) ==
    /\ ~panicked
    /\ UNCHANGED <<disk, returned>>
    /\ find_text' = typed
    /\ IF button = "find"
       THEN NotionApp_find_text(typed)
       ELSE UNCHANGED <<documents, status_message, panicked>>
    /\ UNCHANGED <<active_document_index, config, replace_text>>

\* NotionApp::show_replace_window: the frame of the Replace dialog
show_replace_window(typed_find, typed_replace, button) ==
    /\ ~panicked
    /\ UNCHANGED <<disk, returned>>
    /\ find_text' = typed_find
    /\ replace_text' = typed_replace
    /\ IF button = "find"
       THEN NotionApp_find_text(typed_find)
       ELSE IF button = "replace"
       THEN NotionApp_replace_text(typed_find, typed_replace)
       ELSE UNCHANGED <<documents, status_message, panicked>>
    /\ UNCHANGED <<active_document_index, config>>

\* NotionApp::show_function_list_panel: a click on the entry of line
\* jump_to_line (an index into content.lines())
show_function_list_panel(jump_to_line) ==
    /\ ~panicked
    /\ UNCHANGED <<disk, returned>>
    /\ HasActiveDoc
    /\ jump_to_line < Len(Lines(ActiveDoc.content))
    /\ IsFunctionLine(Lines(ActiveDoc.content)[jump_to_line + 1])
    /\ documents' = WithActiveDoc(
           scroll_to_line([ActiveDoc EXCEPT !.current_line = jump_to_line],
                          jump_to_line))
    /\ UNCHANGED <<active_document_index, config, find_text, replace_text,
                   status_message, panicked>>

\* settings applied to the first document only
apply_settings_to_first(docs, cfg) ==
    [i \in 1..Len(docs) |->
        IF i = 1 THEN [docs[i] EXCEPT !.line_numbers = cfg.line_numbers,
                                      !.word_wrap = cfg.word_wrap]
        ELSE docs[i]]

\* NotionApp::apply_settings_to_documents, for the configuration cfg
apply_settings_to_documents(docs, cfg) ==
    [i \in 1..Len(docs) |-> [docs[i] EXCEPT !.line_numbers = cfg.line_numbers,
                                            !.word_wrap = cfg.word_wrap]]

\* NotionApp::show_menu_bar, View menu: a click on the "Word Wrap" or the
\* "Line Numbers" checkbox
show_menu_bar_view(checkbox) ==
    /\ ~panicked
    /\ UNCHANGED <<disk, returned>>
    /\ config' = IF checkbox = "Word Wrap"
                 THEN [config EXCEPT !.word_wrap = ~config.word_wrap]
                 ELSE [config EXCEPT !.line_numbers = ~config.line_numbers]
    /\ documents' = apply_settings_to_documents(documents, config')
    /\ UNCHANGED <<active_document_index, find_text, replace_text,
                   status_message, panicked>>

\* NotionApp::show_settings_window: a frame in which the settings are
\* applied ("Save Settings", or the window closed after a change), with
\* the values word_wrap and line_numbers of its checkboxes
show_settings_window(word_wrap, line_numbers) ==
    /\ ~panicked
    /\ UNCHANGED <<disk, returned>>
    /\ config' = [config EXCEPT !.word_wrap = word_wrap,
                                !.line_numbers = line_numbers]
    /\ documents' = apply_settings_to_documents(documents, config')
    /\ status_message' = Some("Settings saved")
    /\ UNCHANGED <<active_document_index, find_text, replace_text, panicked>>

\* NotionApp::show_status_bar: a message older than three seconds is dropped
show_status_bar_expire ==
    /\ ~panicked
    /\ UNCHANGED <<disk, returned>>
    /\ IsSome(status_message)
    /\ status_message' = None
    /\ UNCHANGED <<documents, active_document_index, config, find_text,
                   replace_text, panicked>>

\* a replace is explored while it does not grow the content past MaxLen bytes
ReplaceFits(needle, replacement) ==
    IF HasActiveDoc /\ Len(replacement) > Len(needle)
    THEN Len(ActiveDoc.content) + Len(replacement) - Len(needle) <= MaxLen
    ELSE TRUE

\* the indexes of the open documents, as Options, with None
TabChoices == {None} \cup {Some(i) : i \in 0..(Len(documents) - 1)}

\* the contents the text widget may leave in a frame: the content as it is,
\* or one edit of it
TypedChoices ==
    IF HasActiveDoc
    THEN TextEditResults(ActiveDoc.content) \cup {ActiveDoc.content}
    ELSE {<< >>}

\* the responses of the text widget in a frame: a click and a drag exclude
\* each other, and a frame that changes the content is a keyboard frame (a
\* change with a click or drag in the same frame leaves what the change
\* followed by the click or drag leaves)
ResponseOk(typed, clicked, dragged) ==
    /\ ~(clicked /\ dragged)
    /\ (HasActiveDoc /\ typed # ActiveDoc.content) => ~(clicked \/ dragged)

\* what the file dialog may return from the files
PickChoices(files) == {None} \cup {Some(f) : f \in files}

(***************************************************************************)
(* Spec: an editing session on one document at a time (new, open, close,   *)
(* tabs, typing, clicks, drags, Find and Replace) with the wheel at rest.  *)
(***************************************************************************)
Next ==
    \/ documents = << >> /\ new_document
    \/ \E picked \in PickChoices({LongFile, BadFile}) :
          documents = << >> /\ open_document(picked)
    \/ close_document
    \/ \E clicked_idx \in TabChoices, close_idx \in TabChoices :
          show_tabs_bar(clicked_idx, close_idx)
    \/ \E typed \in TypedChoices,
          has_focus \in BOOLEAN, clicked \in BOOLEAN, dragged \in BOOLEAN :
          /\ ResponseOk(typed, clicked, dragged)
          /\ show_document_area(typed, has_focus, clicked, dragged, 0)
    \/ \E typed \in FindTexts, button \in {"find", "close"} :
          show_find_window(typed, button)
    \/ \E typed_find \in FindTexts, typed_replace \in ReplaceTexts,
          button \in {"find", "replace", "close"} :
          /\ button = "replace" => ReplaceFits(typed_find, typed_replace)
          /\ show_replace_window(typed_find, typed_replace, button)
    \/ show_status_bar_expire

Spec == Init /\ [][Next]_vars

(***************************************************************************)
(* SpecView: a viewing session on one document at a time (new, open,       *)
(* close, typing, clicks, drags, the wheel, the function list and the View *)
(* menu) without the dialogs.                                              *)
(***************************************************************************)
NextView ==
    \/ documents = << >> /\ new_document
    \/ \E picked \in PickChoices({FnFile, BadFile}) :
          documents = << >> /\ open_document(picked)
    \/ close_document
    \/ \E typed \in TypedChoices,
          has_focus \in BOOLEAN, clicked \in BOOLEAN, dragged \in BOOLEAN,
          current_scroll \in ScrollDeltas \cup {0} :
          /\ ResponseOk(typed, clicked, dragged)
          /\ show_document_area(typed, has_focus, clicked, dragged, current_scroll)
    \/ \E jump_to_line \in 0..MaxLen : show_function_list_panel(jump_to_line)
    \/ \E checkbox \in {"Word Wrap", "Line Numbers"} : show_menu_bar_view(checkbox)
    \/ show_status_bar_expire

SpecView == Init /\ [][NextView]_vars

(***************************************************************************)
(* SpecSave: a session on one document at a time that saves (new, open,    *)
(* close, typing, drags, Replace, Save and Save As) with the wheel at rest.*)
(***************************************************************************)
\* the paths the open dialog can return: those of the files there are
OpenPaths == {p \in {NoteFile.path, BadFile.path, OutPath} : IsSome(disk[p])}

\* what the save dialog may return
SavePaths == {None, Some(OutPath)}

NextSave ==
    \/ documents = << >> /\ new_document
    \/ \E p \in OpenPaths :
          documents = << >> /\ open_document(Some(FileAt(disk, p)))
    \/ close_document
    \/ \E typed \in TypedChoices, dragged \in BOOLEAN :
          /\ Len(typed) <= MaxSaveLen
          /\ ResponseOk(typed, FALSE, dragged)
          /\ show_document_area(typed, TRUE, FALSE, dragged, 0)
    \/ \E typed_find \in {<<"a">>, UUml} :
          show_replace_window(typed_find, << >>, "replace")
    \/ \E picked \in SavePaths, write_ok \in BOOLEAN :
          save_document(picked, write_ok)
    \/ \E picked \in SavePaths, write_ok \in BOOLEAN :
          save_document_as(picked, write_ok)
    \/ show_status_bar_expire

SpecSave == Init /\ [][NextSave]_vars

(***************************************************************************)
(* SpecTabs: a session with several documents open (new, open, close, the  *)
(* tab bar, typing, the View menu and the settings window).                *)
(***************************************************************************)
NextTabs ==
    \/ Len(documents) < MaxDocs /\ new_document
    \/ \E picked \in {None} \cup {Some(FileAt(disk, p)) : p \in OpenPaths} :
          Len(documents) < MaxDocs /\ open_document(picked)
    \/ close_document
    \/ \E clicked_idx \in TabChoices, close_idx \in TabChoices :
          show_tabs_bar(clicked_idx, close_idx)
    \/ \E typed \in TypedChoices :
          /\ Len(typed) <= MaxTabLen
          /\ show_document_area(typed, TRUE, FALSE, FALSE, 0)
    \/ \E checkbox \in {"Word Wrap", "Line Numbers"} : show_menu_bar_view(checkbox)
    \/ \E word_wrap \in BOOLEAN, line_numbers \in BOOLEAN :
          show_settings_window(word_wrap, line_numbers)
    \/ show_status_bar_expire

SpecTabs == Init /\ [][NextTabs]_vars

(***************************************************************************)
(* SpecPair: a session with several documents open and Find, Replace and   *)
(* Save (new, open, tab clicks, typing "a" or deleting, drags).            *)
(***************************************************************************)
NextPair ==
    \/ Len(documents) < MaxPairDocs /\ new_document
    \/ Len(documents) < MaxPairDocs /\ open_document(Some(FileAt(disk, NoteFile.path)))
    \/ \E clicked_idx \in TabChoices : show_tabs_bar(clicked_idx, None)
    \/ \E typed \in TypedChoices, dragged \in BOOLEAN :
          /\ Len(typed) <= MaxTabLen
          /\ \A k \in 1..Len(typed) : typed[k] = "a"
          /\ ResponseOk(typed, FALSE, dragged)
          /\ show_document_area(typed, TRUE, FALSE, dragged, 0)
    \/ show_find_window(<<"a">>, "find")
    \/ show_replace_window(<<"a">>, << >>, "replace")
    \/ \E picked \in SavePaths, write_ok \in BOOLEAN :
          save_document(picked, write_ok)

SpecPair == Init /\ [][NextPair]_vars

(***************************************************************************)
(* SpecApi: the public methods of Document and DocumentCollection under    *)
(* any caller.  Each step is one call; returned is what the call returned  *)
(* (None for a method without a result).                                   *)
(***************************************************************************)
\* the documents a caller can construct: Document::new() and
\* Document::from_file(path) of a file that loads
NewDocuments ==
    {DocumentNew} \cup
    {from_file(FileAt(disk, p)).doc :
        p \in {q \in OpenPaths : from_file(FileAt(disk, q)).ok}}

\* documents.add(document)
DocumentCollection_add(document) ==
    /\ documents' = add(documents, document)
    /\ returned' = None
    /\ UNCHANGED <<active_document_index, config, find_text, replace_text,
                   status_message, panicked, disk>>

\* documents.close(index)
DocumentCollection_close(index) ==
    /\ documents' = close(documents, index).documents
    /\ returned' = Some([call |-> "close", ok |-> close(documents, index).closed])
    /\ UNCHANGED <<active_document_index, config, find_text, replace_text,
                   status_message, panicked, disk>>

\* documents.get_mut(index), then Document::ui in a frame in which the
\* text widget leaves typed
Document_ui(index, typed) ==
    /\ InRange(documents, index)
    /\ documents' = [documents EXCEPT ![index + 1] =
                        DocumentUi(documents[index + 1], typed, TRUE, FALSE, FALSE, 0)]
    /\ returned' = None
    /\ UNCHANGED <<active_document_index, config, find_text, replace_text,
                   status_message, panicked, disk>>

\* documents.get_mut(index), then Document::save
Document_save(index, write_ok) ==
    /\ InRange(documents, index)
    /\ LET out == save(documents[index + 1], disk, write_ok)
       IN  /\ documents' = [documents EXCEPT ![index + 1] = out.doc]
           /\ disk' = out.disk
           /\ returned' = Some([call |-> "save", ok |-> out.ok])
    /\ UNCHANGED <<active_document_index, config, find_text, replace_text,
                   status_message, panicked>>

\* documents.get_mut(index), then Document::save_to_file(path)
Document_save_to_file(index, path, write_ok) ==
    /\ InRange(documents, index)
    /\ LET out == save_to_file(documents[index + 1], path, disk, write_ok)
       IN  /\ documents' = [documents EXCEPT ![index + 1] = out.doc]
           /\ disk' = out.disk
           /\ returned' = Some([call |-> "save_to_file", ok |-> out.ok])
    /\ UNCHANGED <<active_document_index, config, find_text, replace_text,
                   status_message, panicked>>

NextApi ==
    \/ \E document \in NewDocuments :
          Len(documents) < MaxApiDocs /\ DocumentCollection_add(document)
    \/ \E index \in 0..MaxApiDocs : DocumentCollection_close(index)
    \/ \E index \in 0..(MaxApiDocs - 1) :
          \E typed \in TextEditResults(IF InRange(documents, index)
                                       THEN documents[index + 1].content
                                       ELSE << >>) :
             Len(typed) <= MaxApiLen /\ Document_ui(index, typed)
    \/ \E index \in 0..(MaxApiDocs - 1), write_ok \in BOOLEAN :
          Document_save(index, write_ok)
    \/ \E index \in 0..(MaxApiDocs - 1), write_ok \in BOOLEAN :
          Document_save_to_file(index, OutPath, write_ok)

SpecApi == Init /\ [][NextApi]_vars

(***************************************************************************)
(* Steps of the operations the properties below are about.                 *)
(***************************************************************************)
\* a frame in which Find Next runs NotionApp::find_text on the active
\* document with the search text needle
FindStep(needle) ==
    /\ HasActiveDoc
    /\ \/ show_find_window(needle, "find")
       \/ \E typed_replace \in ReplaceTexts :
             show_replace_window(needle, typed_replace, "find")

\* a frame in which Replace runs NotionApp::replace_text on the active
\* document with the search text needle and the replacement
ReplaceStep(needle, replacement) ==
    /\ HasActiveDoc
    /\ show_replace_window(needle, replacement, "replace")

\* the active document after the step
ActiveDocAfter == documents'[Unwrap(active_document_index') + 1]

\* pat occurs in s at byte offset i
OccursAt(s, pat, i) ==
    /\ i >= 0
    /\ i + Len(pat) <= Len(s)
    /\ \A k \in 1..Len(pat) : s[i + k] = pat[k]

(***************************************************************************)
(* Properties                                                              *)
(***************************************************************************)

\* C1: a replace on the active document completes with one of the three
\* outcomes "Text replaced", "Selected text doesn't match search text" or
\* "No text selected", and never panics, whatever the stored selection is
\* relative to the current content.
C1_ReplaceCompletes ==
    [][\A needle \in FindTexts, replacement \in ReplaceTexts :
          ReplaceStep(needle, replacement) =>
              /\ ~panicked'
              /\ status_message' \in {Some("Text replaced"),
                                      Some("Selected text doesn't match search text"),
                                      Some("No text selected")}]_vars

\* C2: in every reachable state, a selection (start, end) of a document has
\* start <= end, and start and end are character boundaries of the content
\* (so end <= the byte length of the content).
C2_SelectionInContent ==
    \A i \in 1..Len(documents) :
        IsSome(documents[i].selection) =>
            LET start == Unwrap(documents[i].selection)[1]
                end == Unwrap(documents[i].selection)[2]
            IN  /\ start <= end
                /\ end <= Len(documents[i].content)
                /\ is_char_boundary(documents[i].content, start)
                /\ is_char_boundary(documents[i].content, end)

\* C3: in every reachable state, cursor_position of a document is at most
\* the byte length of its content and lies on a character boundary.
C3_CursorInContent ==
    \A i \in 1..Len(documents) :
        /\ documents[i].cursor_position <= Len(documents[i].content)
        /\ is_char_boundary(documents[i].content, documents[i].cursor_position)

\* the line and the column of byte offset o of s: the '\n' before o, and
\* the characters between the last of them (or the start) and o
LineOf(s, o) == Cardinality({i \in 1..Min(o, Len(s)) : s[i] = "\n"})
ColumnOf(s, o) ==
    Cardinality({i \in 1..Min(o, Len(s)) :
                    /\ s[i] \notin ContinuationBytes
                    /\ s[i] # "\n"
                    /\ \A j \in i..Min(o, Len(s)) : s[j] # "\n"})

\* C4: in every reachable state, current_line is the number of '\n' before
\* cursor_position and current_column the number of characters between the
\* preceding '\n' (or the start) and cursor_position.
C4_LineColumnOfCursor ==
    \A i \in 1..Len(documents) :
        /\ documents[i].current_line =
              LineOf(documents[i].content, documents[i].cursor_position)
        /\ documents[i].current_column =
              ColumnOf(documents[i].content, documents[i].cursor_position)

\* C5: in every reachable state, 0 <= scroll_offset <= line_count * 18.
C5_ScrollInRange ==
    \A i \in 1..Len(documents) :
        /\ documents[i].scroll_offset >= 0
        /\ documents[i].scroll_offset <= get_line_count(documents[i]) * LineHeight

\* is there an occurrence of pat in s at or after byte offset from
OccursFrom(s, pat, from) == \E i \in from..Len(s) : OccursAt(s, pat, i)

\* the first byte offset at or after from at which pat occurs in s
FirstFrom(s, pat, from) ==
    CHOOSE i \in from..Len(s) :
        /\ OccursAt(s, pat, i)
        /\ \A j \in from..(i - 1) : ~OccursAt(s, pat, j)

\* C6 as stated, with the cursor position as the start offset: a find of a
\* (non-empty) needle returns the first occurrence of the needle at or after
\* the start offset, and none if there is no such occurrence.
C6_FindFromStart ==
    [][\A needle \in FindTexts \ {<< >>} :
          FindStep(needle) =>
              LET s == ActiveDoc.content
                  start == ActiveDoc.cursor_position
              IN  IF OccursFrom(s, needle, start)
                  THEN /\ status_message' = Some("Found text at position")
                       /\ ActiveDocAfter.cursor_position = FirstFrom(s, needle, start)
                  ELSE status_message' = Some("Text not found")]_vars

\* C6 as amended: a find returns the first (leftmost) occurrence of the
\* needle in the whole content, wherever the cursor is (the search starts
\* at offset 0), and none if the needle does not occur.
C6_FindLeftmost ==
    [][\A needle \in FindTexts :
          FindStep(needle) =>
              LET s == ActiveDoc.content
              IN  IF OccursFrom(s, needle, 0)
                  THEN /\ status_message' = Some("Found text at position")
                       /\ ActiveDocAfter.cursor_position = FirstFrom(s, needle, 0)
                  ELSE status_message' = Some("Text not found")]_vars

\* a find has hit the first of two occurrences, with the cursor having been
\* moved to it
C6_Witness ==
    /\ HasActiveDoc
    /\ status_message = Some("Found text at position")
    /\ find_text # << >>
    /\ OccursAt(ActiveDoc.content, find_text, ActiveDoc.cursor_position)
    /\ OccursFrom(ActiveDoc.content, find_text, ActiveDoc.cursor_position + 1)
    /\ ActiveDoc.selection =
          Some(<<ActiveDoc.cursor_position,
                 ActiveDoc.cursor_position + Len(find_text)>>)

\* C7: after a find that succeeds with match offset m, cursor_position = m,
\* selection = (m, m + byte length of the needle), and the selected slice
\* of the content is the needle.
C7_FindSelectsMatch ==
    [][\A needle \in FindTexts :
          (FindStep(needle) /\ OccursFrom(ActiveDoc.content, needle, 0)) =>
              LET m == FirstFrom(ActiveDoc.content, needle, 0)
                  after == ActiveDocAfter
              IN  /\ after.cursor_position = m
                  /\ after.selection = Some(<<m, m + Len(needle)>>)
                  /\ SliceOk(after.content, m, m + Len(needle))
                  /\ \A k \in 1..Len(needle) : after.content[m + k] = needle[k]]_vars

\* a find of a two-byte character has hit past the start of the content
C7_Witness ==
    /\ HasActiveDoc
    /\ status_message = Some("Found text at position")
    /\ find_text = EAcute
    /\ ActiveDoc.cursor_position > 0
    /\ ActiveDoc.selection =
          Some(<<ActiveDoc.cursor_position, ActiveDoc.cursor_position + 2>>)
    /\ OccursAt(ActiveDoc.content, EAcute, ActiveDoc.cursor_position)

\* C8 as stated, with the cursor position k as the start offset: a find
\* with an empty needle matches at k itself and gives the selection (k, k).
C8_EmptyNeedleAtStart ==
    [][(/\ FindStep(<< >>)
        /\ ActiveDoc.cursor_position <= Len(ActiveDoc.content)
        /\ is_char_boundary(ActiveDoc.content, ActiveDoc.cursor_position)) =>
           /\ status_message' = Some("Found text at position")
           /\ ActiveDocAfter.cursor_position = ActiveDoc.cursor_position
           /\ ActiveDocAfter.selection =
                 Some(<<ActiveDoc.cursor_position, ActiveDoc.cursor_position>>)]_vars

\* C8 as amended: a find with an empty needle always succeeds at offset 0,
\* wherever the cursor is, and gives the empty selection (0, 0).
C8_EmptyNeedleAtZero ==
    [][FindStep(<< >>) =>
           /\ status_message' = Some("Found text at position")
           /\ ActiveDocAfter.cursor_position = 0
           /\ ActiveDocAfter.selection = Some(<<0, 0>>)]_vars

\* a find with an empty needle has acted on a document with content
C8_Witness ==
    /\ HasActiveDoc
    /\ status_message = Some("Found text at position")
    /\ find_text = << >>
    /\ ActiveDoc.content # << >>
    /\ ActiveDoc.cursor_position = 0
    /\ ActiveDoc.selection = Some(<<0, 0>>)

\* the selected text of doc is the needle, byte for byte
SelectionIs(doc, needle) ==
    /\ IsSome(doc.selection)
    /\ Unwrap(doc.selection)[2] - Unwrap(doc.selection)[1] = Len(needle)
    /\ OccursAt(doc.content, needle, Unwrap(doc.selection)[1])
    /\ is_char_boundary(doc.content, Unwrap(doc.selection)[1])
    /\ is_char_boundary(doc.content, Unwrap(doc.selection)[2])

\* C9: a replace mutates the content only if the selected slice equals the
\* search text; when it does, the new content is old[..start] + replacement
\* + old[end..] and the new selection is (start, start + byte length of the
\* replacement).
C9_ReplaceSelected ==
    [][\A needle \in FindTexts, replacement \in ReplaceTexts :
          ReplaceStep(needle, replacement) =>
              LET old == ActiveDoc.content
                  new == ActiveDocAfter.content
              IN  /\ new # old => SelectionIs(ActiveDoc, needle)
                  /\ SelectionIs(ActiveDoc, needle) =>
                        LET start == Unwrap(ActiveDoc.selection)[1]
                            end == Unwrap(ActiveDoc.selection)[2]
                        IN  /\ Len(new) = Len(old) - (end - start) + Len(replacement)
                            /\ \A i \in 1..start : new[i] = old[i]
                            /\ \A i \in 1..Len(replacement) :
                                  new[start + i] = replacement[i]
                            /\ \A i \in 1..(Len(old) - end) :
                                  new[start + Len(replacement) + i] = old[end + i]
                            /\ ActiveDocAfter.selection =
                                  Some(<<start, start + Len(replacement)>>)
                            /\ status_message' = Some("Text replaced")]_vars

\* a replace by the two-byte character U+00FC, which only a replace enters,
\* has acted in the middle of the content, and its selection is in place
C9_Witness ==
    /\ HasActiveDoc
    /\ status_message = Some("Text replaced")
    /\ IsSome(ActiveDoc.selection)
    /\ Unwrap(ActiveDoc.selection)[1] > 0
    /\ Unwrap(ActiveDoc.selection)[2] = Unwrap(ActiveDoc.selection)[1] + 2
    /\ OccursAt(ActiveDoc.content, UUml, Unwrap(ActiveDoc.selection)[1])
    /\ Unwrap(ActiveDoc.selection)[2] < Len(ActiveDoc.content)

\* C10: a replace that does not succeed (the selected text differs from the
\* search text, or there is no selection) leaves every document as it was:
\* content, selection, cursor_position and is_modified are the same; only
\* the status message changes.
C10_FailedReplaceNoOp ==
    [][\A needle \in FindTexts, replacement \in ReplaceTexts :
          (/\ ReplaceStep(needle, replacement)
           /\ ~panicked'
           /\ ~SelectionIs(ActiveDoc, needle)) =>
              /\ ActiveDocAfter.content = ActiveDoc.content
              /\ ActiveDocAfter.selection = ActiveDoc.selection
              /\ ActiveDocAfter.cursor_position = ActiveDoc.cursor_position
              /\ ActiveDocAfter.is_modified = ActiveDoc.is_modified
              /\ documents' = documents
              /\ active_document_index' = active_document_index
              /\ status_message' =
                    IF IsSome(ActiveDoc.selection)
                    THEN Some("Selected text doesn't match search text")
                    ELSE Some("No text selected")]_vars

\* a replace has been refused for a mismatch, and the document is one
\* loaded from a file that still has its selection and was never modified
C10_Witness ==
    /\ HasActiveDoc
    /\ status_message = Some("Selected text doesn't match search text")
    /\ IsSome(ActiveDoc.selection)
    /\ Unwrap(ActiveDoc.selection)[1] < Unwrap(ActiveDoc.selection)[2]
    /\ IsSome(ActiveDoc.path)
    /\ ~ActiveDoc.is_modified

(***************************************************************************)
(* Saving.                                                                 *)
(***************************************************************************)
\* the content a document had when it was created, loaded or last saved, in
\* a session with one document at a time: nothing for a document without a
\* path, and otherwise the bytes of the file at its path (no other document
\* writes there while this one is open)
CleanContent(doc) ==
    IF IsSome(doc.path) THEN Unwrap(disk[Unwrap(doc.path)]) ELSE << >>

\* C11: is_modified is set by every content mutation (an edit through the
\* text widget, a successful replace) and stays set until a successful
\* save; equivalently, in every reachable state a document whose
\* is_modified is false has the content it had at creation, load or last
\* successful save.
C11_UnmodifiedIsSaved ==
    \A i \in 1..Len(documents) :
        ~documents[i].is_modified =>
            /\ IsSome(documents[i].path) => IsSome(disk[Unwrap(documents[i].path)])
            /\ documents[i].content = CleanContent(documents[i])

\* a document that was edited to "a" has just been saved to a new file and
\* is unmodified again
C11_Witness ==
    /\ HasActiveDoc
    /\ status_message = Some("Saved to")
    /\ ~ActiveDoc.is_modified
    /\ ActiveDoc.content = <<"a">>
    /\ ActiveDoc.path = Some(OutPath)
    /\ disk[OutPath] = Some(<<"a">>)

\* a direct call of a save method on the document at index
SaveCall(index, write_ok) ==
    \/ Document_save(index, write_ok)
    \/ Document_save_to_file(index, OutPath, write_ok)

\* C12: whenever Document::save or Document::save_to_file returns success,
\* is_modified is false afterwards and path is Some, whether or not the
\* document had a path before the call.
C12_SuccessfulSaveClears ==
    [][\A index \in 0..(MaxApiDocs - 1), write_ok \in BOOLEAN :
          (SaveCall(index, write_ok) /\ Unwrap(returned').ok) =>
              /\ ~documents'[index + 1].is_modified
              /\ IsSome(documents'[index + 1].path)]_vars

\* a direct call of a save method on the document at index whose file
\* write fails (Document::save writes only when the document has a path)
FailedWriteCall(index) ==
    \/ Document_save_to_file(index, OutPath, FALSE)
    \/ IsSome(documents[index + 1].path) /\ Document_save(index, FALSE)

\* C13: when the file write of a save fails, the save returns an error and
\* the Document is unchanged: content, path, filename and is_modified are
\* as before the call.
C13_FailedSaveNoOp ==
    [][\A index \in 0..(MaxApiDocs - 1) :
          (InRange(documents, index) /\ FailedWriteCall(index)) =>
              /\ ~Unwrap(returned').ok
              /\ documents'[index + 1].content = documents[index + 1].content
              /\ documents'[index + 1].path = documents[index + 1].path
              /\ documents'[index + 1].filename = documents[index + 1].filename
              /\ documents'[index + 1].is_modified = documents[index + 1].is_modified
              /\ documents' = documents]_vars

\* save_to_file has just returned an error for a modified document that
\* was never saved
C13_Witness ==
    /\ returned = Some([call |-> "save_to_file", ok |-> FALSE])
    /\ \E i \in 1..Len(documents) :
          /\ documents[i].is_modified
          /\ documents[i].path = None
          /\ documents[i].content # << >>
    /\ \A i \in 1..Len(documents) : documents[i].path = None

(***************************************************************************)
(* Loading, and the collection with its active index.                      *)
(***************************************************************************)
\* C14: when loading a file fails (its content is not valid UTF-8), no
\* Document is created: the documents and the active index are as before
\* the open request, and the failure is reported by a status message
\* without aborting.
C14_FailedOpenNoOp ==
    [][\A p \in OpenPaths :
          (/\ open_document(Some(FileAt(disk, p)))
           /\ ~from_file(FileAt(disk, p)).ok) =>
              /\ documents' = documents
              /\ active_document_index' = active_document_index
              /\ status_message' = Some("Error opening file")
              /\ ~panicked']_vars

\* an open has failed while two documents were open, the first one active
C14_Witness ==
    /\ status_message = Some("Error opening file")
    /\ Len(documents) = 2
    /\ active_document_index = Some(0)

\* C15: round trip.  Saving a document that was loaded from a file, and
\* not edited since, with save_to_file writes bytes identical to those of
\* the file it was read from; neither the load nor the save alters the
\* content.
C15_RoundTrip ==
    [][\A q \in OpenPaths :
          (/\ HasActiveDoc
           /\ ActiveDoc.path = Some(q)
           /\ ~ActiveDoc.is_modified
           /\ save_document_as(Some(OutPath), TRUE)) =>
              /\ disk'[OutPath] = disk[q]
              /\ ActiveDocAfter.content = ActiveDoc.content
              /\ Some(ActiveDocAfter.content) = disk[q]]_vars

\* the file note.txt has been loaded and saved to out.txt, which now holds
\* the same two bytes of a multi-byte character
C15_Witness ==
    /\ HasActiveDoc
    /\ status_message = Some("Saved to")
    /\ ActiveDoc.path = Some(OutPath)
    /\ ~ActiveDoc.is_modified
    /\ disk[NoteFile.path] = Some(NoteFile.bytes)
    /\ disk[OutPath] = Some(NoteFile.bytes)

\* a frame that closes a document: File > Close, or a tab's close button
\* pressed in a frame without a click on a tab
CloseStep ==
    /\ \/ close_document
       \/ \E close_idx \in TabChoices : show_tabs_bar(None, close_idx)
    /\ Len(documents') = Len(documents) - 1

\* C16: after a successful close (File > Close or a tab's close button,
\* of the active tab or of another one) the active index is none if the
\* collection became empty and otherwise min(old active index, new
\* length - 1).
C16_ActiveAfterClose ==
    [][CloseStep =>
          active_document_index' =
              IF Len(documents') = 0 THEN None
              ELSE Some(Min(Unwrap(active_document_index), Len(documents') - 1))]_vars

\* C17: in every reachable state the active index is none exactly when the
\* collection is empty, and otherwise it is an index strictly less than
\* the collection length.
C17_ActiveIndexValid ==
    /\ active_document_index = None <=> Len(documents) = 0
    /\ IsSome(active_document_index) =>
          Unwrap(active_document_index) < Len(documents)

\* the last of three documents was active and has been closed: the active
\* index was clamped to the new last document
C17_Witness ==
    /\ status_message = Some("Document closed")
    /\ Len(documents) = MaxDocs - 1
    /\ active_document_index = Some(MaxDocs - 2)

\* C18: DocumentCollection::close(index) with index >= length returns
\* false and leaves the collection unchanged (same documents, same order,
\* same length); the caller's active index is left unchanged too.
C18_CloseOutOfRange ==
    [][\A index \in 0..MaxApiDocs :
          (DocumentCollection_close(index) /\ index >= Len(documents)) =>
              /\ returned' = Some([call |-> "close", ok |-> FALSE])
              /\ documents' = documents
              /\ Len(documents') = Len(documents)
              /\ active_document_index' = active_document_index]_vars

\* close has just returned false on a collection that holds documents
C18_Witness ==
    /\ returned = Some([call |-> "close", ok |-> FALSE])
    /\ Len(documents) = MaxApiDocs
    /\ documents[1] # documents[MaxApiDocs]

AddStep ==
    \/ new_document
    \/ \E p \in OpenPaths :
          /\ from_file(FileAt(disk, p)).ok
          /\ open_document(Some(FileAt(disk, p)))

\* C20: DocumentCollection::add appends the document at the end without
\* changing any existing element or its index, so the index of the added
\* document is the old length; new_document and open_document make exactly
\* that index the active index.
C20_AddAppends ==
    [][AddStep =>
          /\ Len(documents') = Len(documents) + 1
          /\ \A j \in 1..Len(documents) : documents'[j] = documents[j]
          /\ active_document_index' = Some(Len(documents))
          /\ ~documents'[Len(documents) + 1].is_modified
          /\ documents'[Len(documents) + 1].content =
                CleanContent(documents'[Len(documents) + 1])]_vars

\* note.txt has been opened as the third document, after an edited one,
\* and is the active document
C20_Witness ==
    /\ status_message = Some("Opened")
    /\ Len(documents) = MaxDocs
    /\ active_document_index = Some(MaxDocs - 1)
    /\ documents[MaxDocs].path = Some(NoteFile.path)
    /\ documents[MaxDocs].content = NoteFile.bytes
    /\ documents[1].is_modified

(***************************************************************************)
(* The cursor model, the line count and the status bar.                    *)
(***************************************************************************)
\* a frame of the editor in which the text widget changes the content of
\* the active document to typed
EditStep(typed) ==
    /\ typed # ActiveDoc.content
    /\ \E has_focus \in BOOLEAN, clicked \in BOOLEAN, dragged \in BOOLEAN :
          show_document_area(typed, has_focus, clicked, dragged, 0)

\* the active document is the same one before and after the step
SameActiveDoc ==
    /\ HasActiveDoc
    /\ active_document_index' = active_document_index
    /\ Len(documents') = Len(documents)

\* C21: after every content-changing edit made through the text widget,
\* cursor_position is the byte length of the new content (the end of the
\* buffer, not the edit site), multi-byte characters included.
C21_CursorAtEndAfterEdit ==
    [][(SameActiveDoc /\ EditStep(ActiveDocAfter.content)) =>
          ActiveDocAfter.cursor_position = Len(ActiveDocAfter.content)]_vars

\* "a" has been entered in front of a two-byte character: the cursor is at
\* byte 3, the end, and the column counts 2 characters
C21_Witness ==
    /\ HasActiveDoc
    /\ ActiveDoc.is_modified
    /\ ActiveDoc.content = <<"a">> \o EAcute
    /\ ActiveDoc.cursor_position = 3
    /\ ActiveDoc.current_column = 2

\* C22: get_line_count is at least 1 and, for every content, the number of
\* '\n' characters plus one, content that ends with a newline included.
C22_LineCountIsNewlinesPlusOne ==
    \A i \in 1..Len(documents) :
        /\ get_line_count(documents[i]) >= 1
        /\ get_line_count(documents[i]) = NewlineCount(documents[i].content) + 1

\* the byte offset at which line number line of s starts: 0, or the offset
\* after the line-th '\n'
LineStart(s, line) ==
    IF line = 0 THEN 0
    ELSE CHOOSE k \in 1..Len(s) :
            /\ s[k] = "\n"
            /\ Cardinality({j \in 1..k : s[j] = "\n"}) = line

\* the byte offset reached from offset by walking n characters forward
\* (past the end of s, one byte per step)
RECURSIVE WalkChars(_, _, _)
WalkChars(s, offset, n) ==
    IF n = 0 THEN offset
    ELSE IF offset >= Len(s) THEN offset + n
    ELSE WalkChars(s, offset + CharLenAt(s, offset), n - 1)

\* the byte offset of (line, column) in s
OffsetOf(s, line, column) == WalkChars(s, LineStart(s, line), column)

\* C23: for every content and every character-boundary offset o, the
\* (line, column) pair the cursor model computes for o determines o:
\* walking line newlines and then column characters forward gives back o,
\* the column being a number of characters.
C23_LineColumnRoundTrip ==
    \A i \in 1..Len(documents) :
        \A o \in 0..Len(documents[i].content) :
            is_char_boundary(documents[i].content, o) =>
                OffsetOf(documents[i].content,
                         LineColumnAt(documents[i].content, o).line,
                         LineColumnAt(documents[i].content, o).column) = o

\* the cursor is at the end of a content made of a newline and a two-byte
\* character: byte offset 3 is line 1, column 1
C23_Witness ==
    /\ HasActiveDoc
    /\ ActiveDoc.content = <<"\n">> \o EAcute
    /\ ActiveDoc.cursor_position = 3
    /\ ActiveDoc.current_line = 1
    /\ ActiveDoc.current_column = 1
    /\ OffsetOf(ActiveDoc.content, ActiveDoc.current_line,
                ActiveDoc.current_column) = ActiveDoc.cursor_position

\* C24: the selection size reported to the user for a selection
\* (start, end) is the number of characters of content[start..end], not
\* the number of bytes.
C24_SelectionSizeInChars ==
    \A i \in 1..Len(documents) :
        (/\ IsSome(documents[i].selection)
         /\ SliceOk(documents[i].content,
                    Unwrap(documents[i].selection)[1],
                    Unwrap(documents[i].selection)[2])) =>
            status_bar_selection(documents[i]) =
                Some(text_width(Slice(documents[i].content,
                                      Unwrap(documents[i].selection)[1],
                                      Unwrap(documents[i].selection)[2])))

(***************************************************************************)
(* Settings.                                                               *)
(***************************************************************************)
\* C25: in every reachable state, after any new/open operations and
\* configuration changes (View menu toggles, saved settings), the
\* line_numbers and word_wrap flags of every open document equal those of
\* the current configuration.
C25_DocumentsFollowConfig ==
    \A i \in 1..Len(documents) :
        /\ documents[i].line_numbers = config.line_numbers
        /\ documents[i].word_wrap = config.word_wrap

\* settings that turn the line numbers off have been saved with three
\* documents open, one of them loaded from a file
C25_Witness ==
    /\ status_message = Some("Settings saved")
    /\ Len(documents) = MaxDocs
    /\ ~config.line_numbers
    /\ config.word_wrap
    /\ \E i \in 1..Len(documents) : IsSome(documents[i].path)
    /\ \A i \in 1..Len(documents) :
          ~documents[i].line_numbers /\ documents[i].word_wrap

(***************************************************************************)
(* Scrolling.                                                              *)
(***************************************************************************)
\* a frame of the editor of the active document whose scroll delta is
\* current_scroll
ScrollStep(current_scroll) ==
    \E has_focus \in BOOLEAN, clicked \in BOOLEAN, dragged \in BOOLEAN :
        show_document_area(ActiveDocAfter.content, has_focus, clicked, dragged,
                           current_scroll)

\* C26: a frame that applies a scroll delta to a Document leaves, for
\* every delta and every prior scroll_offset,
\* scroll_offset = min(max(prior + delta, 0), line_count * 18): never
\* negative and never past line_count * 18.
C26_ScrollDeltaClamped ==
    [][\A current_scroll \in ScrollDeltas \cup {0} :
          (SameActiveDoc /\ ScrollStep(current_scroll)) =>
              ActiveDocAfter.scroll_offset =
                  Min(Max(ActiveDoc.scroll_offset + current_scroll, 0),
                      get_line_count(ActiveDocAfter) * LineHeight)]_vars

(***************************************************************************)
(* Frame effects of find, replace and save.                                *)
(***************************************************************************)
\* C27: a find that has no match leaves the active document unchanged
\* (content, cursor_position, selection, current_line, current_column and
\* is_modified as before, so an earlier selection stays in place); only
\* the status message becomes "Text not found".
C27_FindNoMatchNoOp ==
    [][\A needle \in FindTexts :
          (FindStep(needle) /\ StrFind(ActiveDoc.content, needle) = None) =>
              /\ ActiveDocAfter.content = ActiveDoc.content
              /\ ActiveDocAfter.cursor_position = ActiveDoc.cursor_position
              /\ ActiveDocAfter.selection = ActiveDoc.selection
              /\ ActiveDocAfter.current_line = ActiveDoc.current_line
              /\ ActiveDocAfter.current_column = ActiveDoc.current_column
              /\ ActiveDocAfter.is_modified = ActiveDoc.is_modified
              /\ documents' = documents
              /\ active_document_index' = active_document_index
              /\ status_message' = Some("Text not found")]_vars

\* a find of "a" has failed on the unmodified file long.txt, which still
\* has the selection (1, 3) that an earlier find of U+00E9 left
C27_Witness ==
    /\ HasActiveDoc
    /\ status_message = Some("Text not found")
    /\ find_text = <<"a">>
    /\ ActiveDoc.path = Some(LongFile.path)
    /\ ~ActiveDoc.is_modified
    /\ ActiveDoc.selection = Some(<<1, 3>>)
    /\ ActiveDoc.cursor_position = 1

\* a frame that runs find_text, replace_text or save_document
FindReplaceSaveStep ==
    \/ \E typed \in FindTexts : show_find_window(typed, "find")
    \/ \E typed_find \in FindTexts, typed_replace \in ReplaceTexts :
          show_replace_window(typed_find, typed_replace, "replace")
    \/ \E picked \in SavePaths, write_ok \in BOOLEAN :
          save_document(picked, write_ok)

\* C28: find, replace and save act only on the document at the active
\* index: every other open document is unchanged (content,
\* cursor_position, selection, is_modified, path, scroll_offset), and
\* without an active document these operations change nothing at all.
C28_OnlyActiveDocument ==
    [][FindReplaceSaveStep =>
          /\ Len(documents') = Len(documents)
          /\ active_document_index' = active_document_index
          /\ \A j \in 1..Len(documents) :
                (~HasActiveDoc \/ j # Unwrap(active_document_index) + 1) =>
                    /\ documents'[j].content = documents[j].content
                    /\ documents'[j].cursor_position = documents[j].cursor_position
                    /\ documents'[j].selection = documents[j].selection
                    /\ documents'[j].is_modified = documents[j].is_modified
                    /\ documents'[j].path = documents[j].path
                    /\ documents'[j].scroll_offset = documents[j].scroll_offset
                    /\ documents'[j] = documents[j]
          /\ ~HasActiveDoc =>
                /\ documents' = documents
                /\ disk' = disk
                /\ status_message' = status_message
                /\ ~panicked']_vars

\* the first of two documents is active and has just been saved to
\* out.txt, while the second one is still modified, without a path, and
\* keeps its selection
C28_Witness ==
    /\ Len(documents) = MaxPairDocs
    /\ active_document_index = Some(0)
    /\ status_message = Some("Saved to")
    /\ documents[1].path = Some(OutPath)
    /\ ~documents[1].is_modified
    /\ documents[MaxPairDocs].is_modified
    /\ documents[MaxPairDocs].path = None
    /\ IsSome(documents[MaxPairDocs].selection)
====
